---------------------------- MODULE Spec2Model ----------------------------
(***************************************************************************)
(* Math scrabble (Creepsy/math_scrabble): the board, the players' bags,    *)
(* the postfix term evaluator and the placement engine, as a state machine.*)
(* One command is executed per Execute step (ScrabbleGame::execute_command)*)
(* and main's loop reports its result and reads the next line.             *)
(***************************************************************************)
EXTENDS Integers, Sequences, FiniteSets, Bags, TLC

(* ------------------------------ bounds -------------------------------- *)
\* Board dimension of the model (the generic parameter N of ScrabbleGame).
N == 4
\* Longest token sequence handed to the evaluator in EvalSpec.
MaxTermLen == 5
\* Longest letter bag handed to try_consume in ConsumeSpec.
MaxBagLen == 3

(* --------------------- scrabble_base_types.rs ------------------------- *)
\* ScrabbleLetter is #[repr(u8)]: a letter is its discriminant.
Num0 == 0
Num9 == 9
Plus == 10
Minus == 11
Dot == 12
Empty == 13
ScrabbleLetter == Num0..Empty

Direction == {"Horizontal", "Vertical"}

as_vec(direction) ==
    IF direction = "Horizontal" THEN <<1, 0>> ELSE <<0, 1>>

orthogonal(direction) ==
    IF direction = "Horizontal" THEN "Vertical" ELSE "Horizontal"

move_position(position, offset, direction) ==
    <<position[1] + offset * as_vec(direction)[1],
      position[2] + offset * as_vec(direction)[2]>>

\* Placement { letters, start_pos, direction }
Placement(letters, start_pos, direction) ==
    [letters |-> letters, start_pos |-> start_pos, direction |-> direction]

(* ------------------------- term_evaluation.rs ------------------------- *)
EvalOk(value) == [ok |-> TRUE, value |-> value]
EvalErr == [ok |-> FALSE, value |-> 0]

\* mutant: the closure of Plus multiplies
apply_operator_plus_multiplies(token, f, s) ==
    IF token = Minus THEN f - s ELSE f * s

\* The closures |f, s| f + s, f - s, f * s passed to binary_operator. A term of at
\* most MaxTermLen or N tokens stays far inside i32, so no operation here overflows.
apply_operator(token, f, s) ==
    IF token = Plus THEN f + s
    ELSE IF token = Minus THEN f - s
    ELSE f * s

\* mutant: the operands are handed to the operator in the other order
binary_operator_swapped(token, operand_stack) ==
    IF Len(operand_stack) >= 2
    THEN LET first == operand_stack[Len(operand_stack) - 1]
             second == operand_stack[Len(operand_stack)]
         IN  [ok |-> TRUE,
              stack |-> Append(SubSeq(operand_stack, 1, Len(operand_stack) - 2),
                               apply_operator(token, second, first))]
    ELSE [ok |-> FALSE, stack |-> operand_stack]

\* binary_operator: [.., first, second] => truncate by two, push operator(first, second)
binary_operator(token, operand_stack) ==
    IF Len(operand_stack) >= 2
    THEN LET first == operand_stack[Len(operand_stack) - 1]
             second == operand_stack[Len(operand_stack)]
         IN  [ok |-> TRUE,
              stack |-> Append(SubSeq(operand_stack, 1, Len(operand_stack) - 2),
                               apply_operator(token, first, second))]
    ELSE [ok |-> FALSE, stack |-> operand_stack]

\* mutant: a digit is pushed as its value plus one
eval_token_digit_plus_one(token, operand_stack) ==
    IF token \in {Plus, Minus, Dot} THEN binary_operator(token, operand_stack)
    ELSE IF token = Empty THEN [ok |-> FALSE, stack |-> operand_stack]
    ELSE [ok |-> TRUE, stack |-> Append(operand_stack, token + 1)]

\* One iteration of the loop of Term::evaluate.
eval_token(token, operand_stack) ==
    IF token \in {Plus, Minus, Dot} THEN binary_operator(token, operand_stack)
    ELSE IF token = Empty THEN [ok |-> FALSE, stack |-> operand_stack]
    ELSE [ok |-> TRUE, stack |-> Append(operand_stack, token)]

\* mutant: no check for operands left on the stack
eval_finish_ignores_rest(operand_stack) ==
    IF Len(operand_stack) = 0 THEN EvalErr
    ELSE EvalOk(operand_stack[Len(operand_stack)])

\* The end of Term::evaluate, after the loop.
eval_finish(operand_stack) ==
    IF Len(operand_stack) > 1 THEN EvalErr
    ELSE IF Len(operand_stack) = 0 THEN EvalErr
    ELSE EvalOk(operand_stack[Len(operand_stack)])

RECURSIVE eval_loop(_, _, _)
eval_loop(tokens, i, operand_stack) ==
    IF i > Len(tokens) THEN eval_finish(operand_stack)
    ELSE LET r == eval_token(tokens[i], operand_stack)
         IN  IF r.ok THEN eval_loop(tokens, i + 1, r.stack) ELSE EvalErr

\* Term::evaluate
evaluate(tokens) == eval_loop(tokens, 1, <<>>)

\* mutant: terms of two letters count as singletons too
is_singleton_up_to_two(tokens) == Len(tokens) <= 2

\* Term::is_singleton
is_singleton(tokens) == Len(tokens) = 1


(* ------------------------- scrabble.rs: results ----------------------- *)
\* Result<(), ScrabbleRuntimeError> of execute_command; a panic unwinds out of it.
Ok == <<"Ok">>
MissingLetters == <<"MissingLetters">>
BlockedSpace == <<"BlockedSpace">>
InvalidPlacement(cause) == <<"InvalidPlacement", cause>>
PlayerIDOutOfBOunds(player_id) == <<"PlayerIDOutOfBOunds", player_id>>
PositionOutOfBounds(position) == <<"PositionOutOfBounds", position>>
Panic(message) == <<"panic", message>>

InvalidTermsCause == "The placement leads to invalid terms!"
SingletonCause == "Terms of length 1 are not allowed!"

(* ------------------------- scrabble.rs: Owner ------------------------- *)
OwnerNone == <<"None">>
Owning(player_id) == <<"Owning", player_id>>

(* ----------------------- scrabble.rs: GameBoard ----------------------- *)
Cells == (0..(N - 1)) \X (0..(N - 1))

\* GameBoard::new
board_new == [pos \in Cells |-> <<Empty, OwnerNone>>]

\* GameBoard::is_out_of_bounds
is_out_of_bounds(pos) ==
    pos[1] < 0 \/ pos[2] < 0 \/ pos[1] >= N \/ pos[2] >= N

\* GameBoard::is_empty
is_empty(board, pos) ==
    IF is_out_of_bounds(pos) THEN FALSE ELSE board[pos][1] = Empty

\* mutant: an occupied cell is overwritten
board_try_place_overwrites(board, placer_id, to_place, pos) ==
    IF is_out_of_bounds(pos)
    THEN [ok |-> FALSE, board |-> board]
    ELSE [ok |-> TRUE, board |-> [board EXCEPT ![pos] = <<to_place, Owning(placer_id)>>]]

\* GameBoard::try_place
board_try_place(board, placer_id, to_place, pos) ==
    IF ~is_empty(board, pos)
    THEN [ok |-> FALSE, board |-> board]
    ELSE [ok |-> TRUE, board |-> [board EXCEPT ![pos] = <<to_place, Owning(placer_id)>>]]

\* mutant: the last column counts as outside the board
try_get_short(board, pos) ==
    IF is_out_of_bounds(pos) \/ pos[1] >= N - 1
    THEN [ok |-> FALSE, tile |-> <<Empty, OwnerNone>>]
    ELSE [ok |-> TRUE, tile |-> board[pos]]

\* GameBoard::try_get
try_get(board, pos) ==
    IF is_out_of_bounds(pos)
    THEN [ok |-> FALSE, tile |-> <<Empty, OwnerNone>>]
    ELSE [ok |-> TRUE, tile |-> board[pos]]

\* mutant: a cleared cell keeps its owner
clear_keeps_owner(board, pos) ==
    IF is_out_of_bounds(pos) THEN board
    ELSE [board EXCEPT ![pos] = <<Empty, board[pos][2]>>]

\* GameBoard::clear
clear(board, pos) ==
    IF is_out_of_bounds(pos) THEN board
    ELSE [board EXCEPT ![pos] = <<Empty, OwnerNone>>]

(* ------------------------- scrabble.rs: Player ------------------------ *)
\* Player::new
player_new(letter_bag) == [letter_bag |-> letter_bag, score |-> 0]

\* Vec::iter().position(|val| val == letter): index of the first match, 0 if none
first_position(bag, letter) ==
    IF \E i \in 1..Len(bag) : bag[i] = letter
    THEN CHOOSE i \in 1..Len(bag) :
            bag[i] = letter /\ \A j \in 1..(i - 1) : bag[j] # letter
    ELSE 0

\* mutant: the letter found stays in the bag
remove_at_nothing(bag, i) == bag

\* Vec::remove
remove_at(bag, i) == SubSeq(bag, 1, i - 1) \o SubSeq(bag, i + 1, Len(bag))

RECURSIVE consume_loop(_, _, _)
consume_loop(modified_letter_bag, to_consume, i) ==
    IF i > Len(to_consume) THEN [ok |-> TRUE, letter_bag |-> modified_letter_bag]
    ELSE LET position == first_position(modified_letter_bag, to_consume[i])
         IN  IF position # 0
             THEN consume_loop(remove_at(modified_letter_bag, position), to_consume, i + 1)
             ELSE [ok |-> FALSE, letter_bag |-> modified_letter_bag]

\* mutant: the letters found are taken and a missing letter is not reported
try_consume_unchecked(letter_bag, to_consume) ==
    [ok |-> TRUE, letter_bag |-> consume_loop(letter_bag, to_consume, 1).letter_bag]

\* Player::try_consume: works on a clone, stores it only when every letter was found
try_consume(letter_bag, to_consume) ==
    LET r == consume_loop(letter_bag, to_consume, 1)
    IN  IF r.ok THEN r ELSE [ok |-> FALSE, letter_bag |-> letter_bag]

(* ---------------------- scrabble.rs: ScrabbleGame --------------------- *)
RECURSIVE revert_loop(_, _, _)
revert_loop(board, placement, offset) ==
    IF offset >= Len(placement.letters) THEN board
    ELSE revert_loop(
            clear(board, move_position(placement.start_pos, offset, placement.direction)),
            placement, offset + 1)

\* mutant: the first written cell is not cleared
revert_placement_from_one(board, placement) == revert_loop(board, placement, 1)

\* ScrabbleGame::revert_placement
revert_placement(board, placement) == revert_loop(board, placement, 0)

\* mutant: the roll-back after a blocked cell clears the blocked cell too
RECURSIVE try_place_loop_clears_blocked(_, _, _, _)
try_place_loop_clears_blocked(board, current, placement, offset) ==
    IF offset >= Len(placement.letters) THEN [ok |-> TRUE, board |-> board]
    ELSE LET r == board_try_place(board, current, placement.letters[offset + 1],
                     move_position(placement.start_pos, offset, placement.direction))
         IN  IF ~r.ok
             THEN [ok |-> FALSE,
                   board |-> revert_placement(board,
                       Placement(SubSeq(placement.letters, 1, offset + 1),
                                 placement.start_pos, placement.direction))]
             ELSE try_place_loop_clears_blocked(r.board, current, placement, offset + 1)

RECURSIVE try_place_loop(_, _, _, _)
try_place_loop(board, current, placement, offset) ==
    IF offset >= Len(placement.letters) THEN [ok |-> TRUE, board |-> board]
    ELSE LET r == board_try_place(board, current, placement.letters[offset + 1],
                     move_position(placement.start_pos, offset, placement.direction))
         IN  IF ~r.ok
             THEN [ok |-> FALSE,
                   board |-> revert_placement(board,
                       Placement(SubSeq(placement.letters, 1, offset),
                                 placement.start_pos, placement.direction))]
             ELSE try_place_loop(r.board, current, placement, offset + 1)

\* mutant: the first cell written before a blocked one is left on the board
try_place_no_revert(board, current, placement) ==
    LET r == try_place_loop(board, current, placement, 0)
    IN  IF r.ok THEN r
        ELSE [ok |-> FALSE,
              board |-> board_try_place(board, current, placement.letters[1],
                                        placement.start_pos).board]

\* ScrabbleGame::try_place
try_place(board, current, placement) == try_place_loop(board, current, placement, 0)

\* TermDirection as isize
Decreasing == -1
Increasing == 1

RECURSIVE collect_loop(_, _, _, _, _)
collect_loop(board, position, direction, iter_dir, curr_iter_offset) ==
    LET curr_pos == move_position(position, curr_iter_offset, direction)
    IN  IF is_out_of_bounds(curr_pos) \/ is_empty(board, curr_pos) THEN <<>>
        ELSE <<curr_pos>> \o
             collect_loop(board, position, direction, iter_dir, curr_iter_offset + iter_dir)

\* ScrabbleGame::collect_to_term_end
collect_to_term_end(board, position, direction, iter_dir) ==
    collect_loop(board, position, direction, iter_dir, 0)

Reverse(s) == [i \in 1..Len(s) |-> s[Len(s) + 1 - i]]
\* mutant: the anchor cell of the increasing walk is kept
skip_none(s) == s
Skip1(s) == IF Len(s) = 0 THEN <<>> ELSE Tail(s)

\* frequency: the (element, count) entries of the HashMap, in no particular order
frequency(elements) ==
    {<<e, Cardinality({i \in 1..Len(elements) : elements[i] = e})>> :
        e \in {elements[i] : i \in 1..Len(elements)}}

\* mutant: the entry of highest count wins, tie or not
term_owner_no_tie(frequencies) ==
    (CHOOSE f \in frequencies : \A g \in frequencies : f[2] >= g[2])[1]

\* The owner get_term derives from the tally after sort_by(|a, b| b.1.cmp(&a.1)):
\* frequencies[0] is an entry of highest count and frequencies[1] one of the highest
\* count among the others; which of several equal entries comes first depends on
\* the HashMap's order, and only then is the result Owner::None whatever it is.
term_owner(frequencies) ==
    LET f0 == CHOOSE f \in frequencies : \A g \in frequencies : f[2] >= g[2]
        rest == frequencies \ {f0}
    IN  IF Cardinality(frequencies) = 1 THEN f0[1]
        ELSE LET f1 == CHOOSE f \in rest : \A g \in rest : f[2] >= g[2]
             IN  IF f0[2] = f1[2] THEN OwnerNone ELSE f0[1]

\* the positions get_term chains: the decreasing walk reversed, then the increasing
\* walk without its first position
term_sequence_of(board, position, direction) ==
    Reverse(collect_to_term_end(board, position, direction, Decreasing))
        \o Skip1(collect_to_term_end(board, position, direction, Increasing))

\* ScrabbleGame::get_term; panic is set where expect() or assert!() fires
get_term(board, position, direction) ==
    LET start_sequence == collect_to_term_end(board, position, direction, Decreasing)
        end_sequence == collect_to_term_end(board, position, direction, Increasing)
        term_sequence == Reverse(start_sequence) \o Skip1(end_sequence)
        gets == [i \in 1..Len(term_sequence) |-> try_get(board, term_sequence[i])]
        term == [i \in 1..Len(term_sequence) |-> gets[i].tile[1]]
        owners == [i \in 1..Len(term_sequence) |-> gets[i].tile[2]]
        frequencies == frequency(owners)
    IN  IF \E i \in 1..Len(gets) : ~gets[i].ok
        THEN [panic |-> TRUE, term |-> <<>>, owner |-> OwnerNone]
        ELSE IF Cardinality(frequencies) = 0
        THEN [panic |-> TRUE, term |-> term, owner |-> OwnerNone]
        ELSE [panic |-> FALSE, term |-> term, owner |-> term_owner(frequencies)]

\* mutant: only the term along the placement's own axis is derived
get_placement_terms_main_only(board, placement) ==
    <<get_term(board, placement.start_pos, placement.direction)>>

\* ScrabbleGame::get_placement_terms
get_placement_terms(board, placement) ==
    <<get_term(board, placement.start_pos, placement.direction)>> \o
    [i \in 1..Len(placement.letters) |->
        get_term(board,
                 move_position(placement.start_pos, i - 1, placement.direction),
                 orthogonal(placement.direction))]

\* the filter of place_on_board
keep_term(t) == ~is_singleton(t.term)

\* mutant: no wrap-around
next_player_no_wrap(current, num_players) == current + 1

\* ScrabbleGame::next_player
next_player(current, num_players) == (current + 1) % num_players

\* mutant: the last term is left out
RECURSIVE add_scores_misses_last(_, _, _, _)
add_scores_misses_last(ps, terms, results, i) ==
    IF i >= Len(terms) THEN ps
    ELSE add_scores_misses_last(
            IF terms[i].owner = OwnerNone THEN ps
            ELSE [ps EXCEPT ![terms[i].owner[2]].score = @ + results[i].value],
            terms, results, i + 1)

\* owners.zip(results).for_each(... self.players[player_id].score += score as isize)
RECURSIVE add_scores(_, _, _, _)
add_scores(ps, terms, results, i) ==
    IF i > Len(terms) THEN ps
    ELSE add_scores(
            IF terms[i].owner = OwnerNone THEN ps
            ELSE [ps EXCEPT ![terms[i].owner[2]].score = @ + results[i].value],
            terms, results, i + 1)

\* mutant: the letters are not given back
return_letters_dropped(ps, current, placement) == ps

\* get_current_player().letter_bag.append(&mut placement.letters.clone())
return_letters(ps, current, placement) ==
    [ps EXCEPT ![current].letter_bag = @ \o placement.letters]

\* mutant: the first-placement flag is never cleared
outcome_flag_kept(res, ps, current, board, first) ==
    [result |-> res, players |-> ps, current_player |-> current,
     board |-> board, is_first_placement |-> TRUE]

Outcome(res, ps, current, board, first) ==
    [result |-> res, players |-> ps, current_player |-> current,
     board |-> board, is_first_placement |-> first]

\* ScrabbleGame::place_on_board
place_on_board(ps, current, board, first, placement) ==
    LET consumed == try_consume(ps[current].letter_bag, placement.letters)
        ps1 == [ps EXCEPT ![current].letter_bag = consumed.letter_bag]
        placed == try_place(board, current, placement)
        all_terms == get_placement_terms(placed.board, placement)
        terms == SelectSeq(all_terms, keep_term)
        results == [i \in 1..Len(terms) |-> evaluate(terms[i].term)]
        are_terms_valid == \A i \in 1..Len(results) : results[i].ok
    IN  IF ~consumed.ok THEN Outcome(MissingLetters, ps, current, board, first)
        ELSE IF ~placed.ok
        THEN Outcome(BlockedSpace, return_letters(ps1, current, placement),
                     current, placed.board, first)
        ELSE IF \E i \in 1..Len(all_terms) : all_terms[i].panic
        THEN Outcome(Panic("BUG: term is out of bounds!"), ps1, current, placed.board, first)
        ELSE IF ~(~first \/ Len(terms) = 1)
        THEN Outcome(Panic("assertion failed: !self.is_first_placement || terms.len() == 1"),
                     ps1, current, placed.board, first)
        ELSE IF ~are_terms_valid
        THEN Outcome(InvalidPlacement(InvalidTermsCause),
                     return_letters(ps1, current, placement), current,
                     revert_placement(placed.board, placement), first)
        ELSE IF Len(terms) = 0
        THEN Outcome(InvalidPlacement(SingletonCause),
                     return_letters(ps1, current, placement), current,
                     revert_placement(placed.board, placement), first)
        ELSE Outcome(Ok, add_scores(ps1, terms, results, 1),
                     next_player(current, Cardinality(DOMAIN ps1)), placed.board, FALSE)

(* ------------------------------ the state ----------------------------- *)
VARIABLES
    player_bags,         \* main: the bags the game was constructed from
    players,             \* ScrabbleGame.players: player id -> [letter_bag, score]
    current_player,      \* ScrabbleGame.current_player
    board,               \* ScrabbleGame.board.tiles: cell -> <<letter, owner>>
    is_first_placement,  \* ScrabbleGame.is_first_placement
    pc,                  \* main's loop: "read", "report" or "panicked"
    command,             \* the Command main handed to execute_command
    result,              \* what execute_command returned (or the panic that left it)
    successes,           \* history: number of times place_on_board returned Ok(())
    tokens,              \* Term.tokens of the term being evaluated
    token_index,         \* Term::evaluate: number of tokens consumed by the loop
    operand_stack,       \* Term::evaluate: operand_stack
    eval_pc,             \* Term::evaluate: "idle", "loop", "done"
    eval_result,         \* Term::evaluate: its return value
    to_consume,          \* Player::try_consume: its argument
    modified_letter_bag, \* Player::try_consume: the working copy of the bag
    consume_index,       \* Player::try_consume: number of letters the loop has taken
    consume_pc,          \* Player::try_consume: "idle", "loop", "done"
    consume_result       \* Player::try_consume: its return value

game_vars == <<player_bags, players, current_player, board, is_first_placement,
               pc, command, result, successes>>
eval_vars == <<tokens, token_index, operand_stack, eval_pc, eval_result>>
consume_vars == <<to_consume, modified_letter_bag, consume_index, consume_pc, consume_result>>
vars == <<player_bags, players, current_player, board, is_first_placement,
          pc, command, result, successes, tokens, token_index, operand_stack, eval_pc, eval_result,
          to_consume, modified_letter_bag, consume_index, consume_pc, consume_result>>

(* ------------------------------- inputs ------------------------------- *)
\* The bags given on the command line (main needs at least two players): the two
\* players of the spec's end-to-end scenario, and the same with a third player.
ScenarioBags == << <<1, 2, Plus>>, <<3, 4, Dot>> >>
BagConfigs == {ScenarioBags \o << <<5>> >>}

\* the largest number of players of a configuration of BagConfigs
MaxPlayers ==
    CHOOSE n \in {Len(bags) : bags \in BagConfigs} : \A bags \in BagConfigs : Len(bags) <= n

NoCommand == [kind |-> "None"]
PrintCmd == [kind |-> "Print"]
ScoreCmd(player_id) == [kind |-> "Score", player_id |-> player_id]
BagCmd(player_id) == [kind |-> "Bag", player_id |-> player_id]
PlaceCmd(placement) == [kind |-> "Place", placement |-> placement]

\* The runs of consecutive letters of a bag, at most three letters long
\* (placement_from_str accepts 1 to 3 letters).
MaxPlacementLen == 3
SubSeqsOf(bag) ==
    {SubSeq(bag, ij[1], ij[2]) :
        ij \in {x \in (1..Len(bag)) \X (1..Len(bag)) :
                    x[1] <= x[2] /\ x[2] - x[1] < MaxPlacementLen}}

\* Letters of the placements tried: drawn from every bag of BagConfigs, so the
\* current player may or may not hold them.
PlacementLetters ==
    UNION {UNION {SubSeqsOf(bags[i]) : i \in 1..Len(bags)} : bags \in BagConfigs}

\* Start positions (placement_from_str parses any isize pair): every cell of the
\* board, and the positions one step outside it, before and past each axis.
StartCoords == (-1)..N
StartPositions ==
    {pos \in StartCoords \X StartCoords :
        is_out_of_bounds(pos) => (pos[1] = 0 \/ pos[2] = 0)}

Placements ==
    {Placement(l, pos, d) : l \in PlacementLetters, pos \in StartPositions, d \in Direction}

\* Player ids of Score and Bag commands: the players and one id past them.
PlayerIds == 0..MaxPlayers

(* ------------------------ ScrabbleGame::new --------------------------- *)
game_new(bags) == [i \in 0..(Len(bags) - 1) |-> player_new(bags[i + 1])]

Init ==
    /\ player_bags \in BagConfigs
    /\ players = game_new(player_bags)
    /\ current_player = 0
    /\ board = board_new
    /\ is_first_placement = TRUE
    /\ pc = "read"
    /\ command = NoCommand
    /\ result = Ok
    /\ successes = 0
    /\ tokens = <<>>
    /\ token_index = 0
    /\ operand_stack = <<>>
    /\ eval_pc = "idle"
    /\ eval_result = EvalErr
    /\ to_consume = <<>>
    /\ modified_letter_bag = <<>>
    /\ consume_index = 0
    /\ consume_pc = "idle"
    /\ consume_result = Ok

(* ------------------- ScrabbleGame::execute_command -------------------- *)
\* Command::Print: prints the board, changes nothing
ExecPrint ==
    /\ pc = "read"
    /\ command' = PrintCmd
    /\ result' = Ok
    /\ pc' = "report"
    /\ UNCHANGED <<player_bags, players, current_player, board, is_first_placement,
                   successes>>
    /\ UNCHANGED eval_vars
    /\ UNCHANGED consume_vars

\* mutant: the id one past the last player is accepted
query_result_off_by_one(ps, player_id) ==
    IF player_id > Cardinality(DOMAIN ps) THEN PlayerIDOutOfBOunds(player_id) ELSE Ok

\* the bounds check shared by Command::Score and Command::Bag
query_result(ps, player_id) ==
    IF player_id >= Cardinality(DOMAIN ps) THEN PlayerIDOutOfBOunds(player_id) ELSE Ok

\* Command::Score(player_id)
ExecScore(player_id) ==
    /\ pc = "read"
    /\ command' = ScoreCmd(player_id)
    /\ result' = query_result(players, player_id)
    /\ pc' = "report"
    /\ UNCHANGED <<player_bags, players, current_player, board, is_first_placement,
                   successes>>
    /\ UNCHANGED eval_vars
    /\ UNCHANGED consume_vars

\* Command::Bag(player_id)
ExecBag(player_id) ==
    /\ pc = "read"
    /\ command' = BagCmd(player_id)
    /\ result' = query_result(players, player_id)
    /\ pc' = "report"
    /\ UNCHANGED <<player_bags, players, current_player, board, is_first_placement,
                   successes>>
    /\ UNCHANGED eval_vars
    /\ UNCHANGED consume_vars

\* Command::Place(placement): place_on_board, to its return or to its panic
ExecPlace(placement) ==
    /\ pc = "read"
    /\ LET out == place_on_board(players, current_player, board,
                                 is_first_placement, placement)
       IN  /\ command' = PlaceCmd(placement)
           /\ result' = out.result
           /\ players' = out.players
           /\ current_player' = out.current_player
           /\ board' = out.board
           /\ is_first_placement' = out.is_first_placement
           /\ pc' = IF out.result[1] = "panic" THEN "panicked" ELSE "report"
           /\ successes' = IF out.result = Ok THEN successes + 1 ELSE successes
    /\ UNCHANGED player_bags
    /\ UNCHANGED eval_vars
    /\ UNCHANGED consume_vars

\* main: print the error, if any, and read the next line
Report ==
    /\ pc = "report"
    /\ pc' = "read"
    /\ command' = NoCommand
    /\ result' = Ok
    /\ UNCHANGED <<player_bags, players, current_player, board, is_first_placement,
                   successes>>
    /\ UNCHANGED eval_vars
    /\ UNCHANGED consume_vars

Execute ==
    /\ pc = "read"
    /\ \/ ExecPrint
       \/ \E player_id \in PlayerIds : ExecScore(player_id)
       \/ \E player_id \in PlayerIds : ExecBag(player_id)
       \/ \E placement \in Placements : ExecPlace(placement)

Next ==
    \/ Execute
    \/ Report

Spec == Init /\ [][Next]_vars

\* The game of the spec's end-to-end scenario: two players, bags 12+ and 34*.
ScenarioInit ==
    /\ player_bags = ScenarioBags
    /\ players = game_new(player_bags)
    /\ current_player = 0
    /\ board = board_new
    /\ is_first_placement = TRUE
    /\ pc = "read"
    /\ command = NoCommand
    /\ result = Ok
    /\ successes = 0
    /\ tokens = <<>>
    /\ token_index = 0
    /\ operand_stack = <<>>
    /\ eval_pc = "idle"
    /\ eval_result = EvalErr
    /\ to_consume = <<>>
    /\ modified_letter_bag = <<>>
    /\ consume_index = 0
    /\ consume_pc = "idle"
    /\ consume_result = Ok

ScenarioSpec == ScenarioInit /\ [][Next]_vars

(* --------------- Term::evaluate, one loop iteration a step ------------- *)
\* Tokens of the terms evaluated in EvalSpec.
EvalAlphabet == {1, 2, 3, 5, Plus, Minus, Dot, Empty}
TokenSeqs == UNION {[1..k -> EvalAlphabet] : k \in 0..MaxTermLen}

EvalInit ==
    /\ player_bags = ScenarioBags
    /\ players = game_new(player_bags)
    /\ current_player = 0
    /\ board = board_new
    /\ is_first_placement = TRUE
    /\ pc = "read"
    /\ command = NoCommand
    /\ result = Ok
    /\ successes = 0
    /\ tokens \in TokenSeqs
    /\ token_index = 0
    /\ operand_stack = <<>>
    /\ eval_pc = "loop"
    /\ eval_result = EvalErr
    /\ to_consume = <<>>
    /\ modified_letter_bag = <<>>
    /\ consume_index = 0
    /\ consume_pc = "idle"
    /\ consume_result = Ok

\* for token in &self.tokens { match token ... }
EvalStep ==
    /\ eval_pc = "loop"
    /\ token_index < Len(tokens)
    /\ LET r == eval_token(tokens[token_index + 1], operand_stack)
       IN  /\ operand_stack' = r.stack
           /\ token_index' = token_index + 1
           /\ eval_pc' = IF r.ok THEN "loop" ELSE "done"
           /\ eval_result' = EvalErr
    /\ UNCHANGED tokens
    /\ UNCHANGED game_vars
    /\ UNCHANGED consume_vars

\* the checks and the pop after the loop
EvalFinish ==
    /\ eval_pc = "loop"
    /\ token_index = Len(tokens)
    /\ eval_result' = eval_finish(operand_stack)
    /\ eval_pc' = "done"
    /\ UNCHANGED <<tokens, token_index, operand_stack>>
    /\ UNCHANGED game_vars
    /\ UNCHANGED consume_vars

EvalNext ==
    \/ EvalStep
    \/ EvalFinish

EvalSpec == EvalInit /\ [][EvalNext]_vars

(* ------------- Term::evaluate on the terms of main's board ------------- *)
\* main builds ScrabbleGame::<10>: a term holds at most 10 letters.
MainBoardSize == 10
\* Tokens of the terms evaluated in OverflowSpec: the largest digit and the two
\* operators that can move a value away from zero fastest.
OverflowAlphabet == {Num9, Minus, Dot}
OverflowSeqs == UNION {[1..k -> OverflowAlphabet] : k \in 0..MainBoardSize}

OverflowInit ==
    /\ player_bags = ScenarioBags
    /\ players = game_new(player_bags)
    /\ current_player = 0
    /\ board = board_new
    /\ is_first_placement = TRUE
    /\ pc = "read"
    /\ command = NoCommand
    /\ result = Ok
    /\ successes = 0
    /\ tokens \in OverflowSeqs
    /\ token_index = 0
    /\ operand_stack = <<>>
    /\ eval_pc = "loop"
    /\ eval_result = EvalErr
    /\ to_consume = <<>>
    /\ modified_letter_bag = <<>>
    /\ consume_index = 0
    /\ consume_pc = "idle"
    /\ consume_result = Ok

OverflowSpec == OverflowInit /\ [][EvalNext]_vars

(* ------------- Player::try_consume, one loop iteration a step ---------- *)
\* Letters of the bags and requests of ConsumeSpec.
ConsumeAlphabet == {1, 2, Plus}
ConsumeBags == UNION {[1..k -> ConsumeAlphabet] : k \in 0..MaxBagLen}
ConsumeRequests == UNION {[1..k -> ConsumeAlphabet] : k \in 0..MaxPlacementLen}

\* One player, whose try_consume has just cloned the bag.
ConsumeInit ==
    /\ player_bags \in {<<bag>> : bag \in ConsumeBags}
    /\ players = game_new(player_bags)
    /\ current_player = 0
    /\ board = board_new
    /\ is_first_placement = TRUE
    /\ pc = "read"
    /\ command = NoCommand
    /\ result = Ok
    /\ successes = 0
    /\ tokens = <<>>
    /\ token_index = 0
    /\ operand_stack = <<>>
    /\ eval_pc = "idle"
    /\ eval_result = EvalErr
    /\ to_consume \in ConsumeRequests
    /\ modified_letter_bag = players[0].letter_bag
    /\ consume_index = 0
    /\ consume_pc = "loop"
    /\ consume_result = Ok

\* for letter in to_consume { if let Some(position) = ... { remove } else { return Err } }
ConsumeStep ==
    /\ consume_pc = "loop"
    /\ consume_index < Len(to_consume)
    /\ LET position == first_position(modified_letter_bag, to_consume[consume_index + 1])
       IN  IF position # 0
           THEN /\ modified_letter_bag' = remove_at(modified_letter_bag, position)
                /\ consume_index' = consume_index + 1
                /\ consume_pc' = "loop"
                /\ consume_result' = consume_result
           ELSE /\ consume_pc' = "done"
                /\ consume_result' = MissingLetters
                /\ UNCHANGED <<modified_letter_bag, consume_index>>
    /\ UNCHANGED to_consume
    /\ UNCHANGED game_vars
    /\ UNCHANGED eval_vars

\* self.letter_bag = modified_letter_bag; Ok(())
ConsumeCommit ==
    /\ consume_pc = "loop"
    /\ consume_index = Len(to_consume)
    /\ players' = [players EXCEPT ![0].letter_bag = modified_letter_bag]
    /\ consume_result' = Ok
    /\ consume_pc' = "done"
    /\ UNCHANGED <<to_consume, modified_letter_bag, consume_index>>
    /\ UNCHANGED <<player_bags, current_player, board, is_first_placement,
                   pc, command, result, successes>>
    /\ UNCHANGED eval_vars

ConsumeNext ==
    \/ ConsumeStep
    \/ ConsumeCommit

ConsumeSpec == ConsumeInit /\ [][ConsumeNext]_vars

(* ======================= properties of the game ======================= *)
PlayerSet == DOMAIN players
Digits == Num0..Num9
Operators == {Plus, Minus, Dot}

\* number of instances of a letter in a bag
CountIn(bag, letter) == Cardinality({i \in 1..Len(bag) : bag[i] = letter})
\* two bags hold the same letters with the same multiplicities
SameMultiset(bag1, bag2) == \A l \in ScrabbleLetter : CountIn(bag1, l) = CountIn(bag2, l)
\* the cells of a board holding a letter placed by a player
CellsOf(b, p) == {c \in Cells : b[c][2] = Owning(p)}

Occupied(b, c) == b[c][1] # Empty
ErrorKinds == {"MissingLetters", "BlockedSpace", "InvalidPlacement"}

\* the step executes a Place command that returns (it does not panic)
PlaceReturned == pc = "read" /\ pc' = "report" /\ command'.kind = "Place"
PlaceFailed == PlaceReturned /\ result'[1] \in ErrorKinds
PlaceSucceeded == PlaceReturned /\ result' = Ok

\* nothing of the game changed, bags compared as multisets
GameUnchanged ==
    /\ board' = board
    /\ \A p \in PlayerSet :
          /\ SameMultiset(players'[p].letter_bag, players[p].letter_bag)
          /\ players'[p].score = players[p].score
    /\ DOMAIN players' = DOMAIN players
    /\ current_player' = current_player
    /\ is_first_placement' = is_first_placement

\* C1: a Place that fails with MissingLetters, BlockedSpace or InvalidPlacement
\* leaves the board cell for cell, every bag as a multiset, every score, the
\* current player and the first-placement flag as they were before the command.
C1_FailedPlaceIsAtomic == [][PlaceFailed => GameUnchanged]_vars

\* A placement of several letters was written in full, rejected for its terms and
\* rolled back; the letters went back to the end of the bag, which is now in another
\* order.
C1_Witness ==
    /\ pc = "report"
    /\ command.kind = "Place"
    /\ result = InvalidPlacement(InvalidTermsCause)
    /\ Len(command.placement.letters) >= 2
    /\ players[current_player].letter_bag # player_bags[current_player + 1]

\* C4: between commands, each player's bag together with the letters of the cells
\* that player owns is, as a multiset, the bag the player started with.
C4_BagConservation ==
    pc \in {"read", "report"} =>
        \A p \in PlayerSet :
            LET owned == CellsOf(board, p)
            IN  \A l \in ScrabbleLetter :
                    CountIn(players[p].letter_bag, l)
                        + Cardinality({c \in owned : board[c][1] = l})
                    = CountIn(player_bags[p + 1], l)

\* A player has placed part of the bag, and a later placement (by the next player)
\* was rolled back.
C4_Witness ==
    /\ pc = "report"
    /\ command.kind = "Place"
    /\ result[1] = "InvalidPlacement"
    /\ \E p \in PlayerSet :
          /\ Len(players[p].letter_bag) > 0
          /\ Len(players[p].letter_bag) < Len(player_bags[p + 1])

(* ---- terms, owners and values, stated without the engine's walk ------ *)
\* the i-th target cell of a placement, i counted from 0
PlacedCell(placement, i) ==
    IF placement.direction = "Horizontal"
    THEN <<placement.start_pos[1] + i, placement.start_pos[2]>>
    ELSE <<placement.start_pos[1], placement.start_pos[2] + i>>

Targets(placement) == {PlacedCell(placement, i) : i \in 0..(Len(placement.letters) - 1)}

\* the bag holds the letters, with multiplicity
HoldsLetters(bag, letters) ==
    \A l \in ScrabbleLetter : CountIn(letters, l) <= CountIn(bag, l)

\* every target cell is on the board and empty
TargetsFree(b, placement) ==
    \A t \in Targets(placement) : t \in Cells /\ ~Occupied(b, t)

\* the board with the placement's letters written by player p
Written(b, placement, p) ==
    [c \in Cells |->
        IF \E i \in 0..(Len(placement.letters) - 1) : PlacedCell(placement, i) = c
        THEN <<placement.letters[1 + CHOOSE i \in 0..(Len(placement.letters) - 1) :
                                        PlacedCell(placement, i) = c],
               Owning(p)>>
        ELSE b[c]]

Coord(c, d) == IF d = "Horizontal" THEN c[1] ELSE c[2]
OnLine(a, c, d) == IF d = "Horizontal" THEN c[2] = a[2] ELSE c[1] = a[1]
Between(a, c, e, d) ==
    /\ OnLine(a, e, d)
    /\ \/ (Coord(a, d) <= Coord(e, d) /\ Coord(e, d) <= Coord(c, d))
       \/ (Coord(c, d) <= Coord(e, d) /\ Coord(e, d) <= Coord(a, d))

\* the maximal run of occupied cells through cell a along d: the cells of a's line
\* joined to a by occupied cells only
Run(b, a, d) ==
    LET line == {c \in Cells : OnLine(a, c, d)}
    IN  {c \in line : \A e \in line : Between(a, c, e, d) => Occupied(b, e)}

\* the letters of a run, in increasing coordinate order
RunLetters(b, run, d) ==
    LET lo == CHOOSE x \in {Coord(c, d) : c \in run} : \A c \in run : x <= Coord(c, d)
    IN  [i \in 1..Cardinality(run) |->
            b[CHOOSE c \in run : Coord(c, d) = lo + i - 1][1]]

\* the player owning strictly more cells of the run than any other player, if any
RunOwner(b, run) ==
    LET cnt(p) == Cardinality({c \in run : b[c][2] = Owning(p)})
    IN  IF \E p \in PlayerSet : \A q \in PlayerSet \ {p} : cnt(p) > cnt(q)
        THEN Owning(CHOOSE p \in PlayerSet : \A q \in PlayerSet \ {p} : cnt(p) > cnt(q))
        ELSE OwnerNone

\* the lines a placement touches: its own axis through start_pos, and the other
\* axis through each target cell
Anchors(placement) ==
    {<<placement.start_pos, placement.direction>>} \cup
    {<<t, orthogonal(placement.direction)>> : t \in Targets(placement)}

\* the touched lines whose run is a term of length >= 2
ScoringAnchors(b, placement) ==
    {a \in Anchors(placement) : Cardinality(Run(b, a[1], a[2])) >= 2}

\* Postfix expressions E ::= digit | E E op, and their values: the set of values of
\* a token sequence, empty when it is no expression, a singleton when it is one.
RECURSIVE Values(_)
Values(s) ==
    IF Len(s) = 1 THEN (IF s[1] \in Digits THEN {s[1]} ELSE {})
    ELSE IF Len(s) < 3 \/ s[Len(s)] \notin Operators THEN {}
    ELSE UNION {
            {IF s[Len(s)] = Plus THEN x + y
             ELSE IF s[Len(s)] = Minus THEN x - y ELSE x * y :
                 x \in Values(SubSeq(s, 1, k)),
                 y \in Values(SubSeq(s, k + 1, Len(s) - 1))} :
            k \in 1..(Len(s) - 2)}

IsExpression(s) == Values(s) # {}
ValueOf(s) == CHOOSE v \in Values(s) : TRUE

RECURSIVE ValueSum(_, _)
ValueSum(b, anchors) ==
    IF anchors = {} THEN 0
    ELSE LET a == CHOOSE x \in anchors : TRUE
         IN  ValueOf(RunLetters(b, Run(b, a[1], a[2]), a[2]))
             + ValueSum(b, anchors \ {a})

\* what the terms of length >= 2 touched by the placement are worth to an owner
Credit(b, placement, owner) ==
    ValueSum(b, {a \in ScoringAnchors(b, placement) :
                    RunOwner(b, Run(b, a[1], a[2])) = owner})

\* C2: a Place whose letters the player holds, whose target cells are free and
\* which creates no term of length >= 2 is rejected with InvalidPlacement and
\* leaves the game as it was.
C2_SingletonPlacementRejected ==
    [][(/\ pc = "read" /\ pc' # "read" /\ command'.kind = "Place"
        /\ HoldsLetters(players[current_player].letter_bag, command'.placement.letters)
        /\ TargetsFree(board, command'.placement)
        /\ ScoringAnchors(Written(board, command'.placement, current_player),
                          command'.placement) = {})
       => (pc' = "report" /\ result'[1] = "InvalidPlacement" /\ GameUnchanged)]_vars

\* C3: no command panics.
C3_NoPanic == pc # "panicked"

\* the player who moved in the step that led to a state reporting a successful Place
Mover == (current_player + Cardinality(PlayerSet) - 1) % Cardinality(PlayerSet)

TiedAnchors(b, placement) ==
    {a \in ScoringAnchors(b, placement) : RunOwner(b, Run(b, a[1], a[2])) = OwnerNone}

RECURSIVE TotalScore(_, _)
TotalScore(ps, among) ==
    IF among = {} THEN 0
    ELSE LET p == CHOOSE x \in among : TRUE
         IN  ps[p].score + TotalScore(ps, among \ {p})

\* C6: the owner get_term gives each term touched by a successful Place is the
\* player who placed strictly more of its cells than any other player, and no owner
\* when no player did; the value of a term without owner is credited to nobody: the
\* scores grow in total by the values of the owned terms alone.
C6_TermOwnership ==
    [][PlaceSucceeded =>
        /\ \A a \in Anchors(command'.placement) :
              get_term(board', a[1], a[2]).owner = RunOwner(board', Run(board', a[1], a[2]))
        /\ TotalScore(players', PlayerSet) =
              TotalScore(players, PlayerSet)
              + ValueSum(board', ScoringAnchors(board', command'.placement)
                                    \ TiedAnchors(board', command'.placement))]_vars

\* A placement succeeded that made a term of length >= 2 in which the two highest
\* counts are equal.
C6_Witness ==
    /\ pc = "report"
    /\ command.kind = "Place"
    /\ result = Ok
    /\ TiedAnchors(board, command.placement) # {}

\* C7: the first successful placement of a game is scored as one term, the placed
\* letters themselves: player 0's score changes by their postfix value and no other
\* score changes, whatever the direction.
C7_FirstMove ==
    [][(PlaceSucceeded /\ successes = 0) =>
        /\ IsExpression(command'.placement.letters)
        /\ players'[0].score = players[0].score + ValueOf(command'.placement.letters)
        /\ \A p \in PlayerSet \ {0} : players'[p].score = players[p].score]_vars

\* The first placement of the game succeeded, vertically.
C7_Witness ==
    /\ pc = "report"
    /\ command.kind = "Place"
    /\ result = Ok
    /\ successes = 1
    /\ command.placement.direction = "Vertical"
    /\ players[0].score # 0

\* C8: a successful Place passes the turn from p to (p + 1) mod the number of
\* players and clears the first-placement flag, a failed Place leaves the current
\* player as it is, and after k successful placements the current player is
\* k mod the number of players.
C8_RoundRobin ==
    [][/\ PlaceSucceeded =>
            /\ current_player' = (current_player + 1) % Cardinality(PlayerSet)
            /\ is_first_placement' = FALSE
       /\ PlaceFailed => current_player' = current_player
       /\ pc' # "panicked" => current_player' = successes' % Cardinality(PlayerSet)]_vars

\* The turn has gone round: the last player's placement succeeded, and player 0 is
\* the current player again.
C8_Witness ==
    /\ pc = "report"
    /\ command.kind = "Place"
    /\ result = Ok
    /\ successes = Cardinality(PlayerSet)
    /\ current_player = 0
    /\ ~is_first_placement

(* ------------------------ the end-to-end scenario ---------------------- *)
ScenarioMove1 == Placement(<<1, 2, Plus>>, <<0, 0>>, "Horizontal")
\* row 0 holds 1, 2, + in its first three cells, placed by player 0
ScenarioBoard1 ==
    [c \in Cells |->
        IF c = <<0, 0>> THEN <<1, Owning(0)>>
        ELSE IF c = <<1, 0>> THEN <<2, Owning(0)>>
        ELSE IF c = <<2, 0>> THEN <<Plus, Owning(0)>>
        ELSE <<Empty, OwnerNone>>]
\* a single digit of player 1's bag, vertically, in a cell next to the + cell
ScenarioMoves2 ==
    {Placement(<<d>>, pos, "Vertical") : d \in {3, 4}, pos \in {<<2, 1>>, <<3, 0>>}}

\* C10: with the bags 12+ and 34*, placing 12+ horizontally at (0,0) on the empty
\* board succeeds, leaves 1, 2, + in row 0, makes player 0's score 3 and passes the
\* turn to player 1; a single digit placed vertically next to the + by player 1 is
\* then rejected as an invalid placement and changes nothing.
C10_Scenario ==
    [][/\ (/\ player_bags = ScenarioBags /\ pc = "read" /\ board = board_new
           /\ command' = PlaceCmd(ScenarioMove1))
          => /\ pc' = "report" /\ result' = Ok
             /\ board' = ScenarioBoard1
             /\ players'[0].score = 3 /\ players'[1].score = 0
             /\ current_player = 0 /\ current_player' = 1
       /\ (/\ player_bags = ScenarioBags /\ pc = "read" /\ board = ScenarioBoard1
           /\ command'.kind = "Place" /\ command'.placement \in ScenarioMoves2)
          => /\ pc' = "report" /\ result'[1] = "InvalidPlacement"
             /\ board' = ScenarioBoard1
             /\ SameMultiset(players'[1].letter_bag, ScenarioBags[2])
             /\ players'[0].score = 3 /\ players'[1].score = 0
             /\ current_player = 1 /\ current_player' = 1]_vars

\* Player 1's digit 3 under the + was rejected after player 0's 12+.
C10_Witness ==
    /\ player_bags = ScenarioBags
    /\ pc = "report"
    /\ command = PlaceCmd(Placement(<<3>>, <<2, 1>>, "Vertical"))
    /\ result[1] = "InvalidPlacement"
    /\ board = ScenarioBoard1
    /\ current_player = 1
    /\ players[0].score = 3

(* ------------------------------ bounds -------------------------------- *)
\* C11: a Place whose letters the current player holds and of which at least one
\* target cell lies outside the board returns BlockedSpace; the cells inside the
\* board that were written are cleared again: board, bags (as multisets), scores,
\* current player and first-placement flag are as before the command.
C11_OutOfBoundsBlocked ==
    [][(/\ pc = "read" /\ pc' # "read" /\ command'.kind = "Place"
        /\ HoldsLetters(players[current_player].letter_bag, command'.placement.letters)
        /\ \E t \in Targets(command'.placement) : t \notin Cells)
       => (pc' = "report" /\ result' = BlockedSpace /\ GameUnchanged)]_vars

\* Three letters placed horizontally from x = N - 2: two cells were written, the
\* third lies outside the board, and the placement was reported as blocked.
C11_Witness ==
    /\ pc = "report"
    /\ result = BlockedSpace
    /\ command.kind = "Place"
    /\ Len(command.placement.letters) = 3
    /\ command.placement.direction = "Horizontal"
    /\ command.placement.start_pos[1] = N - 2
    /\ command.placement.start_pos[2] \in 0..(N - 1)
    /\ ~Occupied(board, command.placement.start_pos)
    /\ HoldsLetters(players[current_player].letter_bag, command.placement.letters)

(* ------------------------------ queries -------------------------------- *)
\* C13: Print, Score(id) and Bag(id) change neither the board, nor any bag, nor any
\* score, nor the current player, nor the first-placement flag; Print succeeds, and
\* Score(id) and Bag(id) return PlayerIDOutOfBOunds(id) exactly when id is at least
\* the number of players and succeed otherwise.
C13_QueriesReadOnly ==
    [][(pc = "read" /\ command'.kind \in {"Print", "Score", "Bag"}) =>
        /\ pc' = "report"
        /\ board' = board
        /\ players' = players
        /\ current_player' = current_player
        /\ is_first_placement' = is_first_placement
        /\ command'.kind = "Print" => result' = Ok
        /\ command'.kind \in {"Score", "Bag"} =>
              result' = IF command'.player_id >= Cardinality(PlayerSet)
                        THEN PlayerIDOutOfBOunds(command'.player_id)
                        ELSE Ok]_vars

\* In a game under way, the bag of the player one past the last was asked for and
\* refused.
C13_Witness ==
    /\ pc = "report"
    /\ command.kind = "Bag"
    /\ command.player_id = Cardinality(PlayerSet)
    /\ result = PlayerIDOutOfBOunds(Cardinality(PlayerSet))
    /\ successes >= 1
    /\ \E c \in Cells : Occupied(board, c)

(* ------------------------ success and precedence ----------------------- *)
\* the token sequence of the touched term anchored at a
AnchorLetters(b, a) == RunLetters(b, Run(b, a[1], a[2]), a[2])

\* C14: a Place succeeds exactly when the current player's bag holds the letters
\* with multiplicity, every target cell is on the board and empty, at least one
\* touched term (main term, orthogonal term through a placed letter) has length
\* >= 2, and every touched term of length >= 2 is a valid postfix expression; when
\* the letters are held, the cells free and a touched term of length >= 2 is not an
\* expression, the placement is rejected as invalid and nothing changes, whatever
\* the other touched terms are.
C14_SuccessCondition ==
    [][(pc = "read" /\ pc' # "read" /\ command'.kind = "Place") =>
        \A placement \in {command'.placement} :
        \A holds \in {HoldsLetters(players[current_player].letter_bag, placement.letters)
                         /\ TargetsFree(board, placement)} :
        \A written \in {IF holds THEN Written(board, placement, current_player) ELSE board} :
        \A scoring \in {IF holds THEN ScoringAnchors(written, placement) ELSE {}} :
        \A invalid \in {{a \in scoring : ~IsExpression(AnchorLetters(written, a))}} :
            /\ (pc' = "report" /\ result' = Ok) <=>
                  (holds /\ scoring # {} /\ invalid = {})
            /\ (holds /\ invalid # {})
               => (/\ pc' = "report"
                   /\ result' = InvalidPlacement(InvalidTermsCause)
                   /\ GameUnchanged)]_vars

\* A placement was rejected that made two terms of length >= 2, one a valid
\* expression and one not.
C14_Witness ==
    /\ pc = "report"
    /\ command.kind = "Place"
    /\ result = InvalidPlacement(InvalidTermsCause)
    /\ LET written == Written(board, command.placement, current_player)
           scoring == ScoringAnchors(written, command.placement)
       IN  /\ \E a \in scoring : IsExpression(AnchorLetters(written, a))
           /\ \E a \in scoring : ~IsExpression(AnchorLetters(written, a))

\* C15: the result of a Place follows the order of the steps: MissingLetters
\* exactly when the current player's bag lacks the letters, whatever the target
\* cells are; otherwise BlockedSpace exactly when a target cell is occupied or
\* outside the board; InvalidPlacement only when the letters are held and the cells
\* free; never PositionOutOfBounds, never PlayerIDOutOfBOunds.
C15_ErrorPrecedence ==
    [][(pc = "read" /\ pc' # "read" /\ command'.kind = "Place") =>
        LET placement == command'.placement
            holds == HoldsLetters(players[current_player].letter_bag, placement.letters)
            free == TargetsFree(board, placement)
        IN  /\ ~holds => (pc' = "report" /\ result' = MissingLetters)
            /\ result' = MissingLetters => ~holds
            /\ (holds /\ ~free) => (pc' = "report" /\ result' = BlockedSpace)
            /\ result' = BlockedSpace => (holds /\ ~free)
            /\ result'[1] = "InvalidPlacement" => (holds /\ free)
            /\ result'[1] \notin {"PositionOutOfBounds", "PlayerIDOutOfBOunds"}]_vars

\* Letters the current player lacks were aimed at an occupied cell: the answer was
\* MissingLetters, not BlockedSpace.
C15_Witness ==
    /\ pc = "report"
    /\ command.kind = "Place"
    /\ result = MissingLetters
    /\ \E t \in Targets(command.placement) : t \in Cells /\ Occupied(board, t)

(* --------------------------- term derivation --------------------------- *)
\* the placement was written in full: its letters are held and its cells free
PlaceWritten ==
    /\ pc = "read" /\ pc' # "read" /\ command'.kind = "Place"
    /\ HoldsLetters(players[current_player].letter_bag, command'.placement.letters)
    /\ TargetsFree(board, command'.placement)

\* C16: for a placement of k letters written in full, get_placement_terms derives
\* k + 1 terms: first the term along the placement's axis through start_pos, then
\* the term along the other axis through each placed cell in order; each is the
\* maximal run of occupied cells on its line containing its anchor, read in
\* increasing coordinate order, the anchor's letter once.
C16_TermDerivation ==
    [][PlaceWritten =>
        \A placement \in {command'.placement} :
        \A written \in {Written(board, placement, current_player)} :
        \A derived \in {get_placement_terms(written, placement)} :
            /\ try_place(board, current_player, placement) = [ok |-> TRUE, board |-> written]
            /\ Len(derived) = Len(placement.letters) + 1
            /\ derived[1].term =
                  AnchorLetters(written, <<placement.start_pos, placement.direction>>)
            /\ Len(derived[1].term) =
                  Cardinality(Run(written, placement.start_pos, placement.direction))
            /\ \A i \in 1..Len(placement.letters) :
                  /\ derived[i + 1].term =
                        AnchorLetters(written, <<PlacedCell(placement, i - 1),
                                                 orthogonal(placement.direction)>>)
                  /\ Len(derived[i + 1].term) =
                        Cardinality(Run(written, PlacedCell(placement, i - 1),
                                        orthogonal(placement.direction)))]_vars

\* A letter was placed between two occupied cells of its line: the term through it
\* runs on both sides of the anchor.
C16_Witness ==
    /\ pc = "report"
    /\ command.kind = "Place"
    /\ result[1] = "InvalidPlacement"
    /\ LET placement == command.placement
           written == Written(board, placement, current_player)
       IN  /\ TargetsFree(board, placement)
           /\ \E t \in Targets(placement) : \E d \in Direction :
                 \E lo \in Run(written, t, d) : \E hi \in Run(written, t, d) :
                     Coord(lo, d) < Coord(t, d) /\ Coord(t, d) < Coord(hi, d)

\* C17: when the terms of a placement written in full are derived, every position
\* the walks collect is on the board and occupied, so try_get returns no
\* PositionOutOfBounds and the expect of get_term does not fire; every derived term
\* has at least one letter and its owner tally at least one entry.
C17_TermWalkOnBoard ==
    [][PlaceWritten =>
        /\ \A written \in {Written(board, command'.placement, current_player)} :
              /\ \A a \in Anchors(command'.placement) :
                    /\ \A walked \in {collect_to_term_end(written, a[1], a[2], Decreasing)
                                         \o collect_to_term_end(written, a[1], a[2], Increasing)} :
                          \A i \in 1..Len(walked) :
                              /\ walked[i] \in Cells
                              /\ Occupied(written, walked[i])
                              /\ try_get(written, walked[i]).ok
                    /\ \A sequence \in {term_sequence_of(written, a[1], a[2])} :
                          /\ Len(sequence) >= 1
                          /\ frequency([i \in 1..Len(sequence) |->
                                           try_get(written, sequence[i]).tile[2]]) # {}
              /\ \A derived \in {get_placement_terms(written, command'.placement)} :
                    \A i \in 1..Len(derived) :
                        ~derived[i].panic /\ Len(derived[i].term) >= 1
        /\ result' # Panic("BUG: term is out of bounds!")]_vars

\* A placement completed a line of the board: the walk along it stopped at the
\* board's edge on both sides.
C17_Witness ==
    /\ pc = "report"
    /\ command.kind = "Place"
    /\ result[1] \in {"Ok", "InvalidPlacement"}
    /\ LET placement == command.placement
           written == IF result = Ok THEN board
                      ELSE Written(board, placement, current_player)
       IN  \E a \in Anchors(placement) : Cardinality(Run(written, a[1], a[2])) = N

(* --------------------------- committed tiles --------------------------- *)
\* C18: a cell that holds a letter between commands keeps its letter and its owner
\* in every later state, whatever command follows and however it ends; a command
\* changes no cell other than the target cells of its placement, and a roll-back
\* clears only cells the placement itself wrote.
C18_CommittedTilesPermanent ==
    [][/\ \A c \in Cells : Occupied(board, c) => board'[c] = board[c]
       /\ \A c \in Cells :
             board'[c] # board[c] =>
                 /\ command'.kind = "Place"
                 /\ c \in Targets(command'.placement)
                 /\ result' = Ok \/ pc' = "panicked"
       /\ (pc = "read" /\ command'.kind = "Place") =>
             \A placed \in {try_place(board, current_player, command'.placement)} :
                 /\ ~placed.ok => placed.board = board
                 /\ placed.ok => revert_placement(placed.board, command'.placement) = board]_vars

\* After a committed placement, a placement of several letters wrote its first cell,
\* ran into an occupied cell and was rolled back.
C18_Witness ==
    /\ pc = "report"
    /\ command.kind = "Place"
    /\ result = BlockedSpace
    /\ successes >= 1
    /\ Len(command.placement.letters) >= 2
    /\ command.placement.start_pos \in Cells
    /\ ~Occupied(board, command.placement.start_pos)
    /\ \E t \in Targets(command.placement) : t \in Cells /\ Occupied(board, t)
    /\ HoldsLetters(players[current_player].letter_bag, command.placement.letters)

(* ------------------------ the first-placement flag ---------------------- *)
FlagMatchesBoard == is_first_placement <=> (board = board_new)

\* C19: between commands the first-placement flag is set exactly when no cell of
\* the board holds a letter; a failed Place leaves the flag as it is, a successful
\* one clears it, and a placement written while the flag is set makes at most one
\* term of length >= 2.
C19_FlagIffBoardEmpty ==
    [][/\ pc \in {"read", "report"} => FlagMatchesBoard
       /\ pc' \in {"read", "report"} => FlagMatchesBoard'
       /\ PlaceFailed => is_first_placement' = is_first_placement
       /\ PlaceSucceeded => ~is_first_placement'
       /\ (is_first_placement /\ PlaceWritten) =>
             \A written \in {Written(board, command'.placement, current_player)} :
                 /\ Cardinality(ScoringAnchors(written, command'.placement)) <= 1
                 /\ Len(SelectSeq(get_placement_terms(written, command'.placement),
                                  keep_term)) <= 1]_vars

\* The first placement of the game was written in full and rejected: the board is
\* empty again and the flag is still set.
C19_Witness ==
    /\ pc = "report"
    /\ command.kind = "Place"
    /\ result[1] = "InvalidPlacement"
    /\ Len(command.placement.letters) >= 2
    /\ is_first_placement
    /\ board = board_new
    /\ successes = 0

(* ------------------------------ no pass move --------------------------- *)
RECURSIVE LettersHeld(_, _)
LettersHeld(ps, among) ==
    IF among = {} THEN 0
    ELSE LET p == CHOOSE x \in among : TRUE
         IN  Len(ps[p].letter_bag) + LettersHeld(ps, among \ {p})

RECURSIVE InitialLetters(_, _)
InitialLetters(bags, i) ==
    IF i > Len(bags) THEN 0 ELSE Len(bags[i]) + InitialLetters(bags, i + 1)

\* the current player holds no letter
CurrentBagEmpty ==
    pc \in {"read", "report"} /\ players[current_player].letter_bag = <<>>

\* C20: once the current player's bag is empty, every Place fails with
\* MissingLetters, and the current player and the empty bag stay as they are in
\* every later state: the turn is held for ever. No letter is ever added to the
\* game, and every successful placement takes at least one letter out of a bag:
\* the number of successful placements is at most the number of letters the bags
\* held at the start less the letters they still hold.
C20_EmptyBagHoldsTurn ==
    [][/\ CurrentBagEmpty =>
            /\ CurrentBagEmpty'
            /\ current_player' = current_player
            /\ (pc = "read" /\ command'.kind = "Place") => result' = MissingLetters
            /\ successes' = successes
       /\ pc' \in {"read", "report"} =>
            successes' + LettersHeld(players', PlayerSet)
                <= InitialLetters(player_bags, 1)
       /\ successes' <= InitialLetters(player_bags, 1)]_vars

\* The turn came back to a player who has placed every letter of the bag: the
\* player's Place was answered with MissingLetters.
C20_Witness ==
    /\ pc = "report"
    /\ command.kind = "Place"
    /\ result = MissingLetters
    /\ players[current_player].letter_bag = <<>>
    /\ successes >= Cardinality(PlayerSet)

(* ------------------------- one-letter placements ------------------------ *)
OtherDirection(d) == IF d = "Horizontal" THEN "Vertical" ELSE "Horizontal"

\* C21: a Place of a single letter ends as place_on_board ends, from the same
\* state, for the same letter at the same position in the other direction: same
\* success, error kind or panic, same board, same bags (as multisets), same scores,
\* same current player, same first-placement flag.
C21_OneLetterDirectionFree ==
    [][(/\ pc = "read" /\ pc' # "read" /\ command'.kind = "Place"
        /\ Len(command'.placement.letters) = 1) =>
        \A other \in {place_on_board(players, current_player, board, is_first_placement,
                         Placement(command'.placement.letters,
                                   command'.placement.start_pos,
                                   OtherDirection(command'.placement.direction)))} :
            /\ other.result = result'
            /\ other.board = board'
            /\ DOMAIN other.players = DOMAIN players'
            /\ \A p \in PlayerSet :
                  /\ SameMultiset(other.players[p].letter_bag, players'[p].letter_bag)
                  /\ other.players[p].score = players'[p].score
            /\ other.current_player = current_player'
            /\ other.is_first_placement = is_first_placement']_vars

\* A single letter placed vertically succeeded on the strength of the horizontal
\* term through it, which is the orthogonal term of this placement and would be the
\* main term of the horizontal one.
C21_Witness ==
    /\ pc = "report"
    /\ command.kind = "Place"
    /\ result = Ok
    /\ Len(command.placement.letters) = 1
    /\ command.placement.direction = "Vertical"
    /\ Cardinality(Run(board, command.placement.start_pos, "Horizontal")) >= 2
    /\ Cardinality(Run(board, command.placement.start_pos, "Vertical")) = 1
    /\ \E p \in PlayerSet : players[p].score # 0

(* --------------------------- cell well-formedness ---------------------- *)
WellFormedCell(tile) ==
    \/ tile = <<Empty, OwnerNone>>
    \/ /\ tile[1] \in Digits \cup Operators
       /\ \E id \in PlayerSet : tile[2] = Owning(id)

\* C22: between commands every cell is either (Empty, no owner) or a digit or an
\* operator owned by one of the players; a cell that receives a letter receives
\* it from a Place and with the player whose turn it was as owner; the owners
\* tallied for a term of a placement written in full hold no no-owner value.
C22_CellsWellFormed ==
    [][/\ pc \in {"read", "report"} => \A c \in Cells : WellFormedCell(board[c])
       /\ pc' \in {"read", "report"} => \A c \in Cells : WellFormedCell(board'[c])
       /\ \A c \in Cells :
             (board'[c] # board[c]) =>
                 /\ command'.kind = "Place"
                 /\ board[c] = <<Empty, OwnerNone>>
                 /\ board'[c][2] = Owning(current_player)
       /\ PlaceWritten =>
             \A written \in {Written(board, command'.placement, current_player)} :
                 /\ written = try_place(board, current_player, command'.placement).board
                 /\ \A a \in Anchors(command'.placement) :
                       \A sequence \in {term_sequence_of(written, a[1], a[2])} :
                           \A i \in 1..Len(sequence) :
                               try_get(written, sequence[i]).tile[2] # OwnerNone]_vars

\* A placement succeeded next to the letters of another player: the board holds
\* cells of the mover and cells of someone else.
C22_Witness ==
    /\ pc = "report"
    /\ command.kind = "Place"
    /\ result = Ok
    /\ board[command.placement.start_pos][2] = Owning(Mover)
    /\ \E c \in Cells : Occupied(board, c) /\ board[c][2] # Owning(Mover)
    /\ \E a \in ScoringAnchors(board, command.placement) :
          \E c \in Run(board, a[1], a[2]) : board[c][2] # Owning(Mover)

(* ===================== properties of the evaluator ==================== *)
\* C9: Term::evaluate gives a token sequence the value it has as a postfix
\* expression (digits are 0-9, an operator applies to the two values before it, the
\* earlier one on the left) and fails on every sequence that is no such expression:
\* an operator with fewer than two values, values left over, the empty sequence, an
\* Empty letter. 12+ is 3, 34* is 12, 5 is 5, 53- is 2, 35- is -2; 12 and + fail.
C9_Evaluator ==
    eval_pc = "done" =>
        /\ eval_result = evaluate(tokens)
        /\ IF IsExpression(tokens)
           THEN eval_result = EvalOk(ValueOf(tokens))
           ELSE ~eval_result.ok
        /\ (tokens = <<>> \/ \E i \in 1..Len(tokens) : tokens[i] = Empty) => ~eval_result.ok
        /\ tokens = <<1, 2, Plus>> => eval_result = EvalOk(3)
        /\ tokens = <<5>> => eval_result = EvalOk(5)
        /\ tokens = <<5, 3, Minus>> => eval_result = EvalOk(2)
        /\ tokens = <<3, 5, Minus>> => eval_result = EvalOk(-2)
        /\ tokens = <<1, 2>> => ~eval_result.ok
        /\ tokens = <<Plus>> => ~eval_result.ok
        /\ evaluate(<<3, 4, Dot>>) = EvalOk(12)

\* 5 3 2 - - was evaluated: the inner 3 - 2 first, then 5 - 1.
C9_Witness ==
    /\ eval_pc = "done"
    /\ tokens = <<5, 3, 2, Minus, Minus>>
    /\ eval_result = EvalOk(4)

\* the bound of the claim: 9^5
MaxAbsValue == 9 * 9 * 9 * 9 * 9
InRange(v) == -MaxAbsValue <= v /\ v <= MaxAbsValue

\* C23: while Term::evaluate runs on a term of at most 10 letters, every value on
\* the operand stack (each digit pushed and each result of an operator) and the
\* value returned lie between -9^5 and 9^5 = 59049, far inside i32.
C23_NoOverflow ==
    /\ Len(tokens) <= MainBoardSize
    /\ \A i \in 1..Len(operand_stack) : InRange(operand_stack[i])
    /\ eval_result.ok => InRange(eval_result.value)
    /\ eval_pc = "done" => eval_result = evaluate(tokens)

\* Ten letters, six 9s and four *: the product of five 9s, 9^5, was reached on the
\* stack, and the term failed for the sixth 9 left over.
C23_Witness ==
    /\ eval_pc = "done"
    /\ tokens = <<9, 9, 9, 9, 9, 9, Dot, Dot, Dot, Dot>>
    /\ operand_stack = <<9, MaxAbsValue>>
    /\ ~eval_result.ok

(* ==================== properties of try_consume ====================== *)
\* C12: try_consume succeeds exactly when the bag holds, for every letter, at least
\* as many instances as the request; on success the bag has lost one instance per
\* requested letter and nothing else, on failure (MissingLetters) the bag is the
\* one before the call. The function place_on_board calls computes the same.
C12_ConsumeAllOrNothing ==
    consume_pc = "done" =>
        /\ consume_result \in {Ok, MissingLetters}
        /\ consume_result = Ok <=> HoldsLetters(player_bags[1], to_consume)
        /\ consume_result = Ok =>
              \A l \in ScrabbleLetter :
                  CountIn(players[0].letter_bag, l)
                      = CountIn(player_bags[1], l) - CountIn(to_consume, l)
        /\ consume_result = MissingLetters => players[0].letter_bag = player_bags[1]
        /\ try_consume(player_bags[1], to_consume).ok = (consume_result = Ok)
        /\ try_consume(player_bags[1], to_consume).letter_bag = players[0].letter_bag

\* The digit 1 was requested twice from a bag holding it once, after another letter
\* that the bag holds: the request failed and the bag is whole.
C12_Witness ==
    /\ consume_pc = "done"
    /\ to_consume = <<2, 1, 1>>
    /\ player_bags[1] = <<1, 2, Plus>>
    /\ consume_result = MissingLetters
    /\ players[0].letter_bag = <<1, 2, Plus>>

=============================================================================
